---- MODULE Spec2Model ----
(***************************************************************************)
(* The graph-rewiring environment of the community-deception study:        *)
(* GraphEnvironment (src/src/environment/graph_env.py) and the part of the *)
(* evaluation harness that reconfigures it (src/src/utils/hiding_node.py). *)
(*                                                                         *)
(* Python objects are modelled with their identity where the code relies   *)
(* on copies: graphs live in `heap` and the fields graph, original_graph   *)
(* and old_graph are references into it; community_target is a reference  *)
(* to a list of original_community_structure or to a caller's list.        *)
(* Real numbers are fixed-point integers in units of 1/One.                *)
(***************************************************************************)
EXTENDS Integers, Sequences, FiniteSets, TLC

\* Number of nodes of the graph; the nodes are 0..NumNodes-1 (set_graph
\* renumbers them with convert_node_labels_to_integers).
NumNodes == 4

\* Number of calls made on the environment after its construction.
MaxCalls == 4

Nodes == 0 .. (NumNodes - 1)

\* Python's None, for a field that otherwise holds a string, a number (a
\* node, a weight of the reward) or a list.
None == "None"

NoNumber == 0 - 1

NoList == <<>>

\* Fixed-point unit: the value v stands for the real number v / One.
One == 2 * 2

\* node lists -------------------------------------------------------------

\* `node in lst` for a Python list.
in_list(node, lst) == \E i \in DOMAIN lst : lst[i] = node

\* The first index at which node occurs in lst (list.index).
list_index(lst, node) == CHOOSE i \in DOMAIN lst :
                             /\ lst[i] = node
                             /\ \A j \in DOMAIN lst : lst[j] = node => i <= j

\* lst after list.remove(node): the first occurrence is removed.
list_remove(lst, node) ==
    LET i == list_index(lst, node)
    IN  [j \in 1 .. (Len(lst) - 1) |-> IF j < i THEN lst[j] ELSE lst[j + 1]]

\* The elements of a list as a set.
list_set(lst) == {lst[i] : i \in DOMAIN lst}

\* The ascending list of the elements of a set of nodes.
RECURSIVE sorted_list(_)
sorted_list(S) ==
    IF S = {} THEN <<>>
    ELSE LET m == CHOOSE x \in S : \A y \in S : x <= y
         IN  <<m>> \o sorted_list(S \ {m})

\* graphs -----------------------------------------------------------------

\* An undirected edge is the set of its two endpoints.
Edge(u, v) == {u, v}

AllEdges == {e \in SUBSET Nodes : Cardinality(e) = 2}

\* A graph value: its node set and a weight for each of its edges.
MkGraph(es, w) == [nodes |-> Nodes, adj |-> [e \in es |-> w[e]]]

has_edge(g, u, v) == Edge(u, v) \in DOMAIN g.adj

\* nx.Graph.add_edge(u, v, weight=w): adds the edge, or updates its weight;
\* an endpoint that is not a node of the graph becomes one.
add_edge(g, u, v, w) ==
    [g EXCEPT !.nodes = @ \cup {u, v},
              !.adj = [e \in (DOMAIN g.adj) \cup {Edge(u, v)} |->
                          IF e = Edge(u, v) THEN w ELSE g.adj[e]]]

\* A removal that leaves the edge where it is.
remove_edge_keep(g, u, v) == g

\* nx.Graph.remove_edge(u, v).
remove_edge(g, u, v) ==
    [g EXCEPT !.adj = [e \in (DOMAIN g.adj) \ {Edge(u, v)} |-> g.adj[e]]]

number_of_edges(g) == Cardinality(DOMAIN g.adj)

number_of_nodes(g) == Cardinality(g.nodes)

\* The slot of a graph object no field refers to.
NoGraph == [nodes |-> {}, adj |-> <<>>]

\* state ------------------------------------------------------------------

VARIABLES
    heap,                          \* graph objects: slot -> graph value
    graph,                         \* self.graph: a slot of heap
    original_graph,                \* self.original_graph: a slot of heap
    old_graph,                     \* self.old_graph: a slot of heap, or None
    env_name,                      \* self.env_name
    beta,                          \* self.beta
    tau,                           \* self.tau (fixed point)
    lambda_metric,                 \* self.lambda_metric (fixed point) or None
    alpha_metric,                  \* self.alpha_metric (fixed point) or None
    community_change_method,       \* HyperParams.COMMUNITY_CHANGE_METHOD
    preferred_community_size,      \* self.preferred_community_size (fixed point)
    original_community_structure,  \* its .communities: a list of node lists
    old_community_structure,       \* its .communities
    new_community_structure,       \* its .communities, or None
    community_target,              \* a reference to a node list
    node_target,                   \* self.node_target
    edge_budget,                   \* self.edge_budget
    used_edge_budget,              \* self.used_edge_budget
    max_steps,                     \* self.max_steps
    stop_episode,                  \* self.stop_episode
    rewards,                       \* self.rewards (fixed point)
    old_rewards,                   \* self.old_rewards
    old_penalty_value,             \* self.old_penalty_value (fixed point)
    possible_actions,              \* self.possible_actions: ADD and REMOVE
    ret,                           \* the last call: its name, argument, outcome
    calls,                         \* calls made since the construction
    consumed,                      \* the entries consumed since possible_actions
                                   \* was computed, each with the target it was
                                   \* consumed under
    pc,                            \* "loop" inside the loop of change_target_node,
                                   \* "select" inside that of random_community,
                                   \* "selected" once it has ended, "idle"
                                   \* between calls
    old_node,                      \* the local old_node of change_target_node
    old_community,                 \* the local old_community of random_community
    hiding_node_target,            \* NodeHiding.node_target
    hiding_community_target        \* NodeHiding.community_target: a reference
                                   \* to a node list

graph_vars == <<heap, graph, original_graph, old_graph>>

config_vars == <<env_name, beta, tau, lambda_metric, alpha_metric,
                 community_change_method, preferred_community_size>>

community_vars == <<original_community_structure, old_community_structure,
                    new_community_structure>>

target_vars == <<community_target, node_target>>

loop_vars == <<pc, old_node, old_community>>

hiding_vars == <<hiding_node_target, hiding_community_target>>

budget_vars == <<edge_budget, used_edge_budget, max_steps>>

episode_vars == <<stop_episode, rewards, old_rewards, old_penalty_value>>

vars == <<graph_vars, config_vars, community_vars, target_vars, budget_vars,
          episode_vars, possible_actions, ret, calls, consumed, loop_vars,
          hiding_vars>>

\* The working graph, the original graph and the previous-step graph.
G == heap[graph]

OG == heap[original_graph]

\* references to node lists --------------------------------------------------

\* community_target after random.choice(communities) or
\* communities[i]: the i-th list object of the original structure itself.
OrigRef(i) == [kind |-> "orig", idx |-> i, val |-> <<>>]

\* A list object of the caller's, or a copy held by a local variable.
OwnRef(lst) == [kind |-> "own", idx |-> 0, val |-> lst]

\* The list a reference points to, given the original structure's lists.
deref(ocs, r) == IF r.kind = "orig" THEN ocs[r.idx] ELSE r.val

\* The present target community, as a list.
CT == deref(original_community_structure, community_target)

\* graph objects -------------------------------------------------------------

\* An assignment of the reference in place of a copy: no new object.
GraphCopy_alias(h, src, dst) == [ref |-> src, heap |-> h]

\* nx.Graph.copy() of the object in slot src: a new object, kept in slot
\* dst, with the same nodes, edges and weights. Gives the new reference and
\* the heap.
GraphCopy(h, src, dst) == [ref |-> dst, heap |-> [h EXCEPT ![dst] = h[src]]]

\* possible actions ------------------------------------------------------------

\* gpa_loop with the REMOVE branch not asking whether the edge exists.
RECURSIVE gpa_loop_no_edge_test(_, _, _, _, _)
gpa_loop_no_edge_test(vs, g, u, comm, pa) ==
    IF vs = <<>> THEN pa
    ELSE
      LET v    == Head(vs)
          rest == Tail(vs)
      IN  IF u = v THEN gpa_loop_no_edge_test(rest, g, u, comm, pa)
          ELSE IF in_list(u, comm) /\ in_list(v, comm)
          THEN gpa_loop_no_edge_test(rest, g, u, comm,
                                     [pa EXCEPT !.REMOVE = @ \cup {<<u, v>>}])
          ELSE IF \/ (in_list(u, comm) /\ ~in_list(v, comm))
                  \/ (~in_list(u, comm) /\ in_list(v, comm))
          THEN IF ~has_edge(g, u, v) /\ <<v, u>> \notin pa.ADD
               THEN gpa_loop_no_edge_test(rest, g, u, comm,
                                          [pa EXCEPT !.ADD = @ \cup {<<u, v>>}])
               ELSE gpa_loop_no_edge_test(rest, g, u, comm, pa)
          ELSE gpa_loop_no_edge_test(rest, g, u, comm, pa)

\* The loop of get_possible_actions over the nodes vs still to visit.
RECURSIVE gpa_loop(_, _, _, _, _)
gpa_loop(vs, g, u, comm, pa) ==
    IF vs = <<>> THEN pa
    ELSE
      LET v    == Head(vs)
          rest == Tail(vs)
      IN  IF u = v THEN gpa_loop(rest, g, u, comm, pa)
          ELSE IF in_list(u, comm) /\ in_list(v, comm)
          THEN IF has_edge(g, u, v) /\ <<v, u>> \notin pa.REMOVE
               THEN gpa_loop(rest, g, u, comm,
                             [pa EXCEPT !.REMOVE = @ \cup {<<u, v>>}])
               ELSE gpa_loop(rest, g, u, comm, pa)
          ELSE IF \/ (in_list(u, comm) /\ ~in_list(v, comm))
                  \/ (~in_list(u, comm) /\ in_list(v, comm))
          THEN IF ~has_edge(g, u, v) /\ <<v, u>> \notin pa.ADD
               THEN gpa_loop(rest, g, u, comm,
                             [pa EXCEPT !.ADD = @ \cup {<<u, v>>}])
               ELSE gpa_loop(rest, g, u, comm, pa)
          ELSE gpa_loop(rest, g, u, comm, pa)

\* get_possible_actions() storing each pair to add in both orientations.
get_possible_actions_both(g, u, comm) ==
    LET pa == gpa_loop(sorted_list(g.nodes), g, u, comm, [ADD |-> {}, REMOVE |-> {}])
    IN  [pa EXCEPT !.ADD = @ \cup {<<p[2], p[1]>> : p \in pa.ADD}]

\* get_possible_actions() for the graph g, the target node u and the target
\* community comm (a list).
get_possible_actions(g, u, comm) ==
    gpa_loop(sorted_list(g.nodes), g, u, comm, [ADD |-> {}, REMOVE |-> {}])

\* apply_action keeping the books as a toggle: an added edge becomes an entry
\* of REMOVE, a removed one an entry of ADD, and the matched entry stays.
apply_action_toggle(g, pa, u, a) ==
    LET action          == <<u, a>>
        action_reversed == <<a, u>>
    IN  IF action \in pa.ADD
        THEN [graph |-> add_edge(g, action[1], action[2], 1),
              possible_actions |-> [pa EXCEPT !.REMOVE = @ \cup {action}],
              budget_consumed |-> 1, entry |-> action]
        ELSE IF action_reversed \in pa.ADD
        THEN [graph |-> add_edge(g, action_reversed[1], action_reversed[2], 1),
              possible_actions |-> [pa EXCEPT !.REMOVE = @ \cup {action_reversed}],
              budget_consumed |-> 1, entry |-> action_reversed]
        ELSE IF action \in pa.REMOVE
        THEN [graph |-> remove_edge(g, action[1], action[2]),
              possible_actions |-> [pa EXCEPT !.ADD = @ \cup {action}],
              budget_consumed |-> 1, entry |-> action]
        ELSE IF action_reversed \in pa.REMOVE
        THEN [graph |-> remove_edge(g, action_reversed[1], action_reversed[2]),
              possible_actions |-> [pa EXCEPT !.ADD = @ \cup {action_reversed}],
              budget_consumed |-> 1, entry |-> action_reversed]
        ELSE [graph |-> g, possible_actions |-> pa,
              budget_consumed |-> 0, entry |-> NoList]

\* apply_action emptying the set it found the pair in.
apply_action_drop_all(g, pa, u, a) ==
    LET action          == <<u, a>>
        action_reversed == <<a, u>>
    IN  IF action \in pa.ADD
        THEN [graph |-> add_edge(g, action[1], action[2], 1),
              possible_actions |-> [pa EXCEPT !.ADD = {}],
              budget_consumed |-> 1, entry |-> action]
        ELSE IF action_reversed \in pa.ADD
        THEN [graph |-> add_edge(g, action_reversed[1], action_reversed[2], 1),
              possible_actions |-> [pa EXCEPT !.ADD = {}],
              budget_consumed |-> 1, entry |-> action_reversed]
        ELSE IF action \in pa.REMOVE
        THEN [graph |-> remove_edge(g, action[1], action[2]),
              possible_actions |-> [pa EXCEPT !.REMOVE = {}],
              budget_consumed |-> 1, entry |-> action]
        ELSE IF action_reversed \in pa.REMOVE
        THEN [graph |-> remove_edge(g, action_reversed[1], action_reversed[2]),
              possible_actions |-> [pa EXCEPT !.REMOVE = {}],
              budget_consumed |-> 1, entry |-> action_reversed]
        ELSE [graph |-> g, possible_actions |-> pa,
              budget_consumed |-> 0, entry |-> NoList]

\* apply_action adding the edge asked for when no entry matches.
apply_action_force(g, pa, u, a) ==
    LET action          == <<u, a>>
        action_reversed == <<a, u>>
    IN  IF action \in pa.ADD
        THEN [graph |-> add_edge(g, action[1], action[2], 1),
              possible_actions |-> [pa EXCEPT !.ADD = @ \ {action}],
              budget_consumed |-> 1, entry |-> action]
        ELSE IF action_reversed \in pa.ADD
        THEN [graph |-> add_edge(g, action_reversed[1], action_reversed[2], 1),
              possible_actions |-> [pa EXCEPT !.ADD = @ \ {action_reversed}],
              budget_consumed |-> 1, entry |-> action_reversed]
        ELSE IF action \in pa.REMOVE
        THEN [graph |-> remove_edge(g, action[1], action[2]),
              possible_actions |-> [pa EXCEPT !.REMOVE = @ \ {action}],
              budget_consumed |-> 1, entry |-> action]
        ELSE IF action_reversed \in pa.REMOVE
        THEN [graph |-> remove_edge(g, action_reversed[1], action_reversed[2]),
              possible_actions |-> [pa EXCEPT !.REMOVE = @ \ {action_reversed}],
              budget_consumed |-> 1, entry |-> action_reversed]
        ELSE [graph |-> IF u # a THEN add_edge(g, u, a, 1) ELSE g,
              possible_actions |-> pa,
              budget_consumed |-> 0, entry |-> NoList]

\* apply_action returning -1 for an action it applied.
apply_action_minus_one(g, pa, u, a) ==
    LET action          == <<u, a>>
        action_reversed == <<a, u>>
    IN  IF action \in pa.ADD
        THEN [graph |-> add_edge(g, action[1], action[2], 1),
              possible_actions |-> [pa EXCEPT !.ADD = @ \ {action}],
              budget_consumed |-> 0 - 1, entry |-> action]
        ELSE IF action_reversed \in pa.ADD
        THEN [graph |-> add_edge(g, action_reversed[1], action_reversed[2], 1),
              possible_actions |-> [pa EXCEPT !.ADD = @ \ {action_reversed}],
              budget_consumed |-> 0 - 1, entry |-> action_reversed]
        ELSE IF action \in pa.REMOVE
        THEN [graph |-> remove_edge(g, action[1], action[2]),
              possible_actions |-> [pa EXCEPT !.REMOVE = @ \ {action}],
              budget_consumed |-> 0 - 1, entry |-> action]
        ELSE IF action_reversed \in pa.REMOVE
        THEN [graph |-> remove_edge(g, action_reversed[1], action_reversed[2]),
              possible_actions |-> [pa EXCEPT !.REMOVE = @ \ {action_reversed}],
              budget_consumed |-> 0 - 1, entry |-> action_reversed]
        ELSE [graph |-> g, possible_actions |-> pa,
              budget_consumed |-> 0, entry |-> NoList]

\* apply_action(action) on the graph g with the stored sets pa and the target
\* node u: the graph, the sets, the budget consumed and the entry matched.
apply_action(g, pa, u, a) ==
    LET action          == <<u, a>>
        action_reversed == <<a, u>>
    IN  IF action \in pa.ADD
        THEN [graph |-> add_edge(g, action[1], action[2], 1),
              possible_actions |-> [pa EXCEPT !.ADD = @ \ {action}],
              budget_consumed |-> 1, entry |-> action]
        ELSE IF action_reversed \in pa.ADD
        THEN [graph |-> add_edge(g, action_reversed[1], action_reversed[2], 1),
              possible_actions |-> [pa EXCEPT !.ADD = @ \ {action_reversed}],
              budget_consumed |-> 1, entry |-> action_reversed]
        ELSE IF action \in pa.REMOVE
        THEN [graph |-> remove_edge(g, action[1], action[2]),
              possible_actions |-> [pa EXCEPT !.REMOVE = @ \ {action}],
              budget_consumed |-> 1, entry |-> action]
        ELSE IF action_reversed \in pa.REMOVE
        THEN [graph |-> remove_edge(g, action_reversed[1], action_reversed[2]),
              possible_actions |-> [pa EXCEPT !.REMOVE = @ \ {action_reversed}],
              budget_consumed |-> 1, entry |-> action_reversed]
        ELSE [graph |-> g, possible_actions |-> pa,
              budget_consumed |-> 0, entry |-> NoList]

\* collaborators ---------------------------------------------------------------

\* The partitions of the nodes, each as a labelling node -> block in which a
\* new block takes the least unused label.
Labellings ==
    {f \in [Nodes -> Nodes] :
        /\ f[0] = 0
        /\ \A n \in Nodes \ {0} :
              \E m \in 0 .. (n - 1) : f[n] <= f[m] + 1}

\* A labelling as a list of communities, each an ascending list of nodes.
as_communities(f) ==
    LET k == Cardinality({f[n] : n \in Nodes})
    IN  [b \in 1 .. k |-> sorted_list({n \in Nodes : f[n] = b - 1})]

\* The communities of a structure cut down to the nodes in S, the empty ones
\* left out.
RECURSIVE within(_, _)
within(cs, S) ==
    IF cs = <<>> THEN <<>>
    ELSE LET c == sorted_list(list_set(Head(cs)) \cap S)
         IN  (IF c = <<>> THEN <<>> ELSE <<c>>) \o within(Tail(cs), S)

\* detection.compute_community(graph): some partition of the graph's nodes
\* into disjoint non-empty communities; here a split of the node range into
\* at most two intervals, or every node alone.
compute_community(g) ==
    {within(as_communities(f), g.nodes) : f \in {h \in Labellings :
        \/ \A n \in Nodes : h[n] = n
        \/ \A n \in Nodes : h[n] <= 1 /\ (n > 0 => h[n - 1] <= h[n])}}

\* The communities of a structure as a set of node sets.
community_sets(cs) == {list_set(cs[i]) : i \in DOMAIN cs}

\* new.normalized_mutual_information(old).score: 1 for identical
\* partitions, a value in [0, 1) otherwise.
normalized_mutual_information(new, old) ==
    IF community_sets(new) = community_sets(old) THEN {One}
    ELSE {0}

\* self.graph_similarity(graph, old_graph): a distance in [0, 1]; here 0 for
\* equal graphs and 1 for different ones.
graph_similarity(g, h) == IF g = h THEN {0} ELSE {One}

\* self.community_similarity(a, b), the Sorensen index of two node lists,
\* as a fraction.
community_similarity(a, b) ==
    [num |-> 2 * Cardinality(list_set(a) \cap list_set(b)),
     den |-> Len(a) + Len(b)]

\* The comparison with tau turned around.
geq_tau(sim, t) == sim.num * One >= t * sim.den

\* community_similarity <= self.tau, for a fraction and a fixed-point
\* threshold (0/0 counts as 0).
leq_tau(sim, t) == sim.num * One <= t * sim.den

\* A product that forgets its second factor.
mul_first(x, y) == x

\* Fixed-point product.
mul(x, y) == (x * y) \div One

\* list objects ------------------------------------------------------------------

\* A copy that is the list itself.
list_copy_alias(ocs, r) == r

\* lst.copy() of the list r refers to: a new list object, local to the caller.
list_copy(ocs, r) == [kind |-> "tmp", idx |-> 0, val |-> deref(ocs, r)]

\* r.remove(node) in place: the original structure's lists, the list
\* community_target holds and the list r refers to, afterwards.
remove_in_place(ocs, ct, r, node) ==
    IF r.kind = "orig"
    THEN [ocs |-> [ocs EXCEPT ![r.idx] = list_remove(@, node)], ct |-> ct, ref |-> r]
    ELSE IF r.kind = "own"
    THEN [ocs |-> ocs, ct |-> [ct EXCEPT !.val = list_remove(@, node)],
          ref |-> [r EXCEPT !.val = list_remove(@, node)]]
    ELSE [ocs |-> ocs, ct |-> ct, ref |-> [r EXCEPT !.val = list_remove(@, node)]]

\* reward ----------------------------------------------------------------------

\* get_penalty() returning and storing the weighted distance itself.
get_penalty_absolute(score, graph_distance, alpha, old_penalty) ==
    LET community_distance == One - score
    IN  IF alpha = NoNumber
        THEN [error |-> "AssertionError", penalty |-> 0,
              old_penalty_value |-> old_penalty]
        ELSE LET penalty == mul(alpha, community_distance)
                            + mul(One - alpha, graph_distance)
             IN  [error |-> None, penalty |-> penalty,
                  old_penalty_value |-> penalty]

\* get_penalty() with the NMI score and the graph distance the collaborators
\* returned: the penalty, the stored previous penalty afterwards, the error.
get_penalty(score, graph_distance, alpha, old_penalty) ==
    LET community_distance == One - score
    IN  IF alpha = NoNumber
        THEN [error |-> "AssertionError", penalty |-> 0,
              old_penalty_value |-> old_penalty]
        ELSE LET penalty == mul(alpha, community_distance)
                            + mul(One - alpha, graph_distance) - old_penalty
             IN  [error |-> None, penalty |-> penalty,
                  old_penalty_value |-> penalty]

\* The lookup of get_reward searching the first community only.
community_of_first(cs, node) ==
    IF in_list(node, cs[1]) THEN cs[1] ELSE NoList

\* The first community of a structure that holds the node, else None (NoList).
community_of(cs, node) ==
    IF \E i \in DOMAIN cs : in_list(node, cs[i])
    THEN cs[CHOOSE i \in DOMAIN cs :
                /\ in_list(node, cs[i])
                /\ \A j \in DOMAIN cs : in_list(node, cs[j]) => i <= j]
    ELSE NoList

\* get_reward() after an applied action: the reward, done, the stored previous
\* penalty, the list objects afterwards and the error raised, if any.
get_reward(ncs, ocs, ct, u, t, lam, alpha, old_penalty, score, graph_distance) ==
    LET same == [error |-> None, reward |-> 0, done |-> FALSE,
                 old_penalty_value |-> old_penalty, ocs |-> ocs, ct |-> ct]
        new_community_target == community_of(ncs, u)
        pen == get_penalty(score, graph_distance, alpha, old_penalty)
    IN  IF lam = NoNumber THEN [same EXCEPT !.error = "AssertionError"]
        ELSE IF new_community_target = NoList
        THEN [same EXCEPT !.error = "AssertionError"]
        ELSE IF pen.error # None THEN [same EXCEPT !.error = pen.error]
        ELSE IF Len(new_community_target) = 1
        THEN [same EXCEPT !.reward = One - mul(lam, pen.penalty),
                          !.done = TRUE,
                          !.old_penalty_value = pen.old_penalty_value]
        ELSE
          LET new_community_target_copy == list_remove(new_community_target, u)
              community_target_copy == list_copy(ocs, ct)
          IN  IF ~in_list(u, deref(ocs, community_target_copy))
              THEN [same EXCEPT !.error = "ValueError",
                                !.old_penalty_value = pen.old_penalty_value]
              ELSE
                LET rm == remove_in_place(ocs, ct, community_target_copy, u)
                    community_similarity_ ==
                        community_similarity(new_community_target_copy,
                                             deref(rm.ocs, rm.ref))
                IN  IF leq_tau(community_similarity_, t)
                    THEN [error |-> None,
                          reward |-> One - mul(lam, pen.penalty),
                          done |-> TRUE,
                          old_penalty_value |-> pen.old_penalty_value,
                          ocs |-> rm.ocs, ct |-> rm.ct]
                    ELSE [error |-> None,
                          reward |-> 0 - mul(lam, pen.penalty),
                          done |-> FALSE,
                          old_penalty_value |-> pen.old_penalty_value,
                          ocs |-> rm.ocs, ct |-> rm.ct]

\* floats ----------------------------------------------------------------------

\* Python floats are IEEE 754 doubles: 53 significant bits, every operation
\* rounded to the nearest double, ties to the even one.
SignificantBits == 53

\* A positive double is its significant bits m, from the most significant (a
\* 1) to the last 1 (the zeros after it are left out), and the exponent e of
\* the first bit: its value is m[1].m[2]m[3]... * 2^e.
float_zero == [e |-> 0, m |-> <<>>]

zero_bits(n) == [i \in 1 .. n |-> 0]

\* bits without the zeros at its end.
trim(bits) ==
    IF \A i \in DOMAIN bits : bits[i] = 0 THEN <<>>
    ELSE SubSeq(bits, 1, CHOOSE k \in DOMAIN bits :
                             bits[k] = 1 /\ \A i \in (k + 1) .. Len(bits) : bits[i] = 0)

\* The c lowest binary digits of the natural number q.
low_bits(q, c) == [i \in 1 .. c |-> (q \div 2^(c - i)) % 2]

\* The binary digits of the natural number c, without leading zeros.
RECURSIVE bits_of(_)
bits_of(c) == IF c = 0 THEN <<>> ELSE Append(bits_of(c \div 2), c % 2)

\* The natural number with the binary digits bits.
RECURSIVE int_of_bits(_)
int_of_bits(bits) ==
    IF bits = <<>> THEN 0
    ELSE 2 * int_of_bits(SubSeq(bits, 1, Len(bits) - 1)) + bits[Len(bits)]

\* The double nearest to the number with the digits bits (first digit 1) and
\* the exponent e; sticky tells that non-zero digits follow those given.
float_round(bits, sticky, e) ==
    IF Len(bits) <= SignificantBits
    THEN [e |-> e, m |-> trim(bits)]
    ELSE
      LET keep == SubSeq(bits, 1, SignificantBits)
          half == bits[SignificantBits + 1] = 1
          more == sticky \/ \E i \in (SignificantBits + 2) .. Len(bits) : bits[i] = 1
          up   == half /\ (more \/ keep[SignificantBits] = 1)
      IN  IF ~up THEN [e |-> e, m |-> trim(keep)]
          ELSE IF \A i \in 1 .. SignificantBits : keep[i] = 1
          THEN [e |-> e + 1, m |-> <<1>>]
          ELSE LET j == CHOOSE k \in 1 .. SignificantBits :
                            /\ keep[k] = 0
                            /\ \A i \in (k + 1) .. SignificantBits : keep[i] = 1
               IN  [e |-> e, m |-> Append(SubSeq(keep, 1, j - 1), 1)]

\* The binary digits of r / den after the point, for 0 <= r < den: all of
\* them when they end within k digits, else the first k; and the remainder.
\* Eight digits at a time.
RECURSIVE div_bits(_, _, _)
div_bits(r, den, k) ==
    IF k = 0 \/ r = 0 THEN [bits |-> <<>>, r |-> r]
    ELSE LET c    == IF k < 8 THEN k ELSE 8
             rest == div_bits((r * 2^c) % den, den, k - c)
         IN  [bits |-> low_bits((r * 2^c) \div den, c) \o rest.bits, r |-> rest.r]

\* a / n for the integers a >= 0 and n > 0: the correctly rounded quotient.
float_div(a, n) ==
    IF a = 0 THEN float_zero
    ELSE
      LET up   == CHOOSE k \in 0 .. 20 : n * 2^k <= a /\ a < n * 2^(k + 1)
          down == CHOOSE k \in 1 .. 20 : n <= a * 2^k /\ a * 2^k < 2 * n
          e    == IF a >= n THEN up ELSE 0 - down
          num  == IF a >= n THEN a ELSE a * 2^down
          den  == IF a >= n THEN n * 2^up ELSE n
          q    == div_bits(num - den, den, SignificantBits)
      IN  float_round(<<1>> \o q.bits, q.r # 0, e)

\* x + 1.
float_add_one(x) ==
    IF x = float_zero THEN [e |-> 0, m |-> <<1>>]
    ELSE IF x.e < 0
    THEN float_round(<<1>> \o zero_bits(0 - x.e - 1) \o x.m, FALSE, 0)
    ELSE
      LET p == x.e + 1
          m == IF Len(x.m) < p THEN x.m \o zero_bits(p - Len(x.m)) ELSE x.m
      IN  IF \A i \in 1 .. p : m[i] = 1
          THEN float_round(<<1>> \o zero_bits(p) \o SubSeq(m, p + 1, Len(m)),
                           FALSE, x.e + 1)
          ELSE LET j == CHOOSE k \in 1 .. p :
                            /\ m[k] = 0
                            /\ \A i \in (k + 1) .. p : m[i] = 1
               IN  float_round([i \in 1 .. Len(m) |->
                                   IF i < j \/ i > p THEN m[i]
                                   ELSE IF i = j THEN 1 ELSE 0], FALSE, x.e)

\* The digits of m[1..i] * b + carry, followed by the digits acc already
\* produced for the lower places.
RECURSIVE mul_bits(_, _, _, _, _)
mul_bits(m, b, i, carry, acc) ==
    IF i = 0 THEN bits_of(carry) \o acc
    ELSE LET c == IF i < 8 THEN i ELSE 8
             t == int_of_bits(SubSeq(m, i - c + 1, i)) * b + carry
         IN  mul_bits(m, b, i - c, t \div 2^c, low_bits(t % 2^c, c) \o acc)

\* x * b for the integer b >= 0 (converted to a double without error).
float_mul(x, b) ==
    IF x = float_zero \/ b = 0 THEN float_zero
    ELSE LET product == mul_bits(x.m, b, Len(x.m), 0, <<>>)
         IN  float_round(product, FALSE, x.e + Len(product) - Len(x.m))

\* int(x): the integer part of x.
float_int(x) ==
    IF x = float_zero \/ x.e < 0 THEN 0
    ELSE int_of_bits(SubSeq(x.m \o zero_bits(x.e + 1), 1, x.e + 1))

\* x is a whole number.
float_is_int(x) == x = float_zero \/ (x.e >= 0 /\ Len(x.m) <= x.e + 1)

\* x < k and k < x for the integer k >= 0 (converted to a double without error).
float_lt_int(x, k) == float_int(x) < k

int_lt_float(k, x) == k < float_int(x) \/ (k = float_int(x) /\ ~float_is_int(x))

\* budget ----------------------------------------------------------------------

\* HyperParams.MAX_STEPS_MUL.
MAX_STEPS_MUL == 2

\* get_edge_budget(): int(edges / nodes * beta), and int((edges / nodes + 1)
\* * beta) for the two named graphs, in floating point.
get_edge_budget(name, g, b) ==
    IF name = "pow" \/ name = "kar"
    THEN float_int(float_mul(float_add_one(
             float_div(number_of_edges(g), number_of_nodes(g))), b))
    ELSE float_int(float_mul(
             float_div(number_of_edges(g), number_of_nodes(g)), b))

\* target selection ----------------------------------------------------------------

\* int(np.ceil(x * fraction)) for a fixed-point fraction.
ceil_mul(x, fraction) == (x * fraction + One - 1) \div One

Abs(x) == IF x < 0 THEN 0 - x ELSE x

\* The largest length among the lists of a structure.
max_len(cs) == CHOOSE m \in {Len(cs[i]) : i \in DOMAIN cs} :
                   \A i \in DOMAIN cs : Len(cs[i]) <= m

\* fixed_community(): the index of the list chosen.
fixed_community(cs, preferred) ==
    LET preferred_size == ceil_mul(max_len(cs), preferred)
        dist(i) == Abs(Len(cs[i]) - preferred_size)
    IN  {CHOOSE i \in DOMAIN cs : \A j \in DOMAIN cs :
             dist(i) < dist(j) \/ (dist(i) = dist(j) /\ i <= j)}

RECURSIVE sum_len(_, _)
sum_len(cs, n) == IF n = 0 THEN 0 ELSE Len(cs[n]) + sum_len(cs, n - 1)

\* distribution_community accepting the communities of the minimum size.
distribution_community_from_min(cs, min_len) ==
    IF Len(cs) < 10 THEN DOMAIN cs
    ELSE LET avg_nodes == float_div(sum_len(cs, Len(cs)), Len(cs))
             max_nodes == max_len(cs)
             max_len_  == float_mul(float_div(4, 5), max_nodes)
             lo        == IF float_lt_int(avg_nodes, min_len) THEN 2 ELSE min_len
         IN  {i \in DOMAIN cs : /\ Len(cs[i]) >= lo
                                /\ int_lt_float(Len(cs[i]), max_len_)
                                /\ Len(cs[i]) < 5000}

\* distribution_community(min_len): the indices random.choice may return
\* (none: it raises on the empty list). avg_nodes and max_len are floats,
\* 0.8 being the double nearest to 4 / 5.
distribution_community(cs, min_len) ==
    IF Len(cs) < 10 THEN DOMAIN cs
    ELSE LET avg_nodes == float_div(sum_len(cs, Len(cs)), Len(cs))
             max_nodes == max_len(cs)
             max_len_  == float_mul(float_div(4, 5), max_nodes)
             lo        == IF float_lt_int(avg_nodes, min_len) THEN 2 ELSE min_len
         IN  {i \in DOMAIN cs : /\ Len(cs[i]) > lo
                                /\ int_lt_float(Len(cs[i]), max_len_)
                                /\ Len(cs[i]) < 5000}

\* random_community() accepting communities of one node.
random_community_any(cs, previous) ==
    {i \in DOMAIN cs : cs[i] # previous \/ Len(cs) < 2}

\* random_community(): the indices on which its loop ends.
random_community(cs, previous) ==
    {i \in DOMAIN cs : \/ (Len(cs[i]) > 1 /\ cs[i] # previous)
                       \/ Len(cs) < 2}

\* The indices change_target_community() may select under the configured method.
select_community(method, cs, preferred, previous) ==
    IF method = 1 THEN random_community(cs, previous)
    ELSE IF method = 2 THEN fixed_community(cs, preferred)
    ELSE distribution_community(cs, 10)

\* change_target_node(None): the nodes on which its loop ends.
choose_target_node(comm, previous) == list_set(comm) \ {previous}

\* the last call: its name, the budget apply_action consumed in it, the done
\* flag returned and the error raised ---------------------------------------------

Ret(op, consumed_, done, error) ==
    [op |-> op, action |-> NoNumber, budget_consumed |-> consumed_, done |-> done,
     error |-> error]

\* The same with the argument passed: the destination node of step(action) and
\* act(action), 1 or 0 for the graph_reset of reset(), the node_target of
\* change_target_node(node_target).
RetOn(op, action, consumed_, done, error) ==
    [Ret(op, consumed_, done, error) EXCEPT !.action = action]

\* construction --------------------------------------------------------------------

\* The graph loaded: the path 0 - 1 - ... - NumNodes-1, whose first edge has
\* weight 2 in the file.
PathEdges == {Edge(n, n + 1) : n \in 0 .. (NumNodes - 2)}

InitGraphs ==
    {MkGraph(es, [e \in es |-> IF e = Edge(0, 1) THEN 2 ELSE 1]) :
        es \in {PathEdges}}

\* The structures the detector finds on the loaded graph: here the splits of
\* the node range into two intervals, the first one no longer than the second.
InitStructures ==
    {cs \in compute_community(MkGraph({}, <<>>)) :
        Len(cs) = 2 /\ Len(cs[1]) <= Len(cs[2]) /\ Len(cs[2]) > 1}

EnvNames == {"kar", "lfr"}

\* The values of beta, tau, lambda_metric, alpha_metric and of the preferred
\* community size the callers configure.
Parameters == {<<1, 0>>, <<3, One \div 2>>}

Lambdas == {One}

Alphas == {One \div 2}

\* The lists and nodes callers pass explicitly.
ExplicitCommunities == {<<0, NumNodes - 1>>}

ExplicitNodes == {0, NumNodes - 1}

\* __init__: the state once the constructor has returned.
InitFrom(graphs, structures) ==
    \E g0 \in graphs, cs \in structures, name \in EnvNames,
       method \in {3} :
      \E i \in select_community(method, cs, One \div 2, NoList) :
        \E u \in choose_target_node(cs[i], NoNumber) :
          /\ heap = [orig |-> g0, work |-> g0, old |-> NoGraph]
          /\ graph = "work"
          /\ original_graph = "orig"
          /\ old_graph = None
          /\ env_name = name
          /\ beta = 3
          /\ tau = One \div 2
          /\ lambda_metric = NoNumber
          /\ alpha_metric = NoNumber
          /\ community_change_method = method
          /\ preferred_community_size = One \div 2
          /\ original_community_structure = cs
          /\ old_community_structure = cs
          /\ new_community_structure = NoList
          /\ community_target = OrigRef(i)
          /\ node_target = u
          /\ edge_budget = get_edge_budget(name, g0, 3)
          /\ used_edge_budget = 0
          /\ max_steps = get_edge_budget(name, g0, 3) * MAX_STEPS_MUL
          /\ stop_episode = FALSE
          /\ rewards = 0
          /\ old_rewards = 0
          /\ old_penalty_value = 0
          /\ possible_actions = get_possible_actions(g0, u, cs[i])
          /\ ret = Ret("init", 0, FALSE, None)
          /\ calls = 0
          /\ consumed = {}
          /\ pc = "idle"
          /\ old_node = NoNumber
          /\ old_community = NoList
          /\ hiding_node_target = node_target
          /\ hiding_community_target = community_target

Init == InitFrom(InitGraphs, InitStructures)

\* operations ----------------------------------------------------------------------

\* reset() keeping the working graph whatever graph_reset says.
reset_keep_graph(graph_reset) ==
    /\ used_edge_budget' = 0
    /\ stop_episode' = FALSE
    /\ rewards' = 0
    /\ old_rewards' = 0
    /\ heap' = [heap EXCEPT !["old"] = NoGraph]
    /\ old_graph' = None
    /\ old_penalty_value' = 0
    /\ old_community_structure' = original_community_structure
    /\ possible_actions' = get_possible_actions(G, node_target, CT)
    /\ ret' = RetOn("reset", IF graph_reset THEN 1 ELSE 0, 0, FALSE, None)
    /\ consumed' = {}
    /\ UNCHANGED <<graph, original_graph, config_vars, original_community_structure,
                   new_community_structure, target_vars, edge_budget, max_steps>>

\* reset() keeping the sets of possible actions it finds.
reset_stale_actions(graph_reset) ==
    LET c  == IF graph_reset THEN GraphCopy(heap, original_graph, "work")
              ELSE [ref |-> graph, heap |-> heap]
        h1 == [c.heap EXCEPT !["old"] = NoGraph]
    IN  /\ used_edge_budget' = 0
        /\ stop_episode' = FALSE
        /\ rewards' = 0
        /\ old_rewards' = 0
        /\ graph' = c.ref
        /\ heap' = h1
        /\ old_graph' = None
        /\ old_penalty_value' = 0
        /\ old_community_structure' = original_community_structure
        /\ ret' = RetOn("reset", IF graph_reset THEN 1 ELSE 0, 0, FALSE, None)
        /\ consumed' = {}
        /\ UNCHANGED <<original_graph, config_vars, original_community_structure,
                       new_community_structure, target_vars, edge_budget, max_steps,
                       possible_actions>>

\* reset(graph_reset).
reset(graph_reset) ==
    LET c  == IF graph_reset THEN GraphCopy(heap, original_graph, "work")
              ELSE [ref |-> graph, heap |-> heap]
        h1 == [c.heap EXCEPT !["old"] = NoGraph]
    IN  /\ used_edge_budget' = 0
        /\ stop_episode' = FALSE
        /\ rewards' = 0
        /\ old_rewards' = 0
        /\ graph' = c.ref
        /\ heap' = h1
        /\ old_graph' = None
        /\ old_penalty_value' = 0
        /\ old_community_structure' = original_community_structure
        /\ possible_actions' = get_possible_actions(h1[c.ref], node_target, CT)
        /\ ret' = RetOn("reset", IF graph_reset THEN 1 ELSE 0, 0, FALSE, None)
        /\ consumed' = {}
        /\ UNCHANGED <<original_graph, config_vars, original_community_structure,
                       new_community_structure, target_vars, edge_budget, max_steps>>

\* The early return of step raising the stop flag.
step_no_match_stop(action) ==
    /\ rewards' = 0 - One
    /\ stop_episode' = TRUE
    /\ ret' = RetOn("step", action, 0, FALSE, None)
    /\ UNCHANGED <<graph, original_graph, config_vars, community_vars,
                   target_vars, budget_vars, old_rewards,
                   old_penalty_value, consumed>>

\* step(action) when apply_action consumed nothing: the early return.
step_no_match(action) ==
    /\ rewards' = 0 - One
    /\ ret' = RetOn("step", action, 0, FALSE, None)
    /\ UNCHANGED <<graph, original_graph, config_vars, community_vars,
                   target_vars, budget_vars, stop_episode, old_rewards,
                   old_penalty_value, consumed>>

\* The budget section of step testing the budget before counting the edge.
step_budget_late(budget_consumed, done) ==
    /\ used_edge_budget' = used_edge_budget + budget_consumed
    /\ stop_episode' = (stop_episode \/ done \/ edge_budget - used_edge_budget < 1)

\* The budget section of step deciding the stop flag afresh at each step.
step_budget_fresh(budget_consumed, done) ==
    /\ used_edge_budget' = used_edge_budget + budget_consumed
    /\ stop_episode' =
          (\/ done
           \/ edge_budget - (used_edge_budget + budget_consumed) < 1)

\* The budget section of step, after get_reward has returned done.
step_budget(budget_consumed, done) ==
    /\ used_edge_budget' = used_edge_budget + budget_consumed
    /\ stop_episode' =
          (\/ stop_episode
           \/ done
           \/ edge_budget - (used_edge_budget + budget_consumed) < 1)

\* step(action).
step(action) ==
    LET snap == GraphCopy(heap, graph, "old")
        act_ == apply_action(snap.heap[graph], possible_actions, node_target, action)
        h1   == [snap.heap EXCEPT ![graph] = act_.graph]
    IN  /\ old_graph' = snap.ref
        /\ heap' = h1
        /\ possible_actions' = act_.possible_actions
        /\ IF act_.budget_consumed = 0
           THEN step_no_match(action)
           ELSE
             \E ncs \in compute_community(act_.graph) :
             \E score \in normalized_mutual_information(ncs, old_community_structure) :
             \E graph_distance \in graph_similarity(act_.graph, snap.heap[snap.ref]) :
               LET r == get_reward(ncs, original_community_structure,
                                   community_target, node_target, tau,
                                   lambda_metric, alpha_metric, old_penalty_value,
                                   score, graph_distance)
               IN  /\ new_community_structure' = ncs
                   /\ consumed' = consumed \cup {<<act_.entry, node_target, community_target>>}
                   /\ old_penalty_value' = r.old_penalty_value
                   /\ original_community_structure' = r.ocs
                   /\ community_target' = r.ct
                   /\ IF r.error # None
                      THEN /\ ret' = RetOn("step", action, 1, FALSE, r.error)
                           /\ UNCHANGED <<rewards, stop_episode, used_edge_budget,
                                          old_community_structure>>
                      ELSE /\ rewards' = r.reward
                           /\ step_budget(act_.budget_consumed, r.done)
                           /\ old_community_structure' = ncs
                           /\ ret' = RetOn("step", action, 1, r.done, None)
                   /\ UNCHANGED <<graph, original_graph, config_vars, node_target,
                                  edge_budget, max_steps, old_rewards>>

\* The branch of act() guarded by budget_consumed == -1: the community
\* structure is recomputed and the target's new community, changed in place,
\* is compared with a copy of the target community.
act_recompute(g, stop) ==
    {LET nct == community_of(ncs, node_target)
     IN  IF nct = NoList \/ ~in_list(node_target, CT)
         THEN [ncs |-> ncs, stop |-> stop, error |-> "Error"]
         ELSE LET i    == CHOOSE j \in DOMAIN ncs : ncs[j] = nct
                  ncs1 == [ncs EXCEPT ![i] = list_remove(@, node_target)]
                  rm   == remove_in_place(original_community_structure,
                              community_target,
                              list_copy(original_community_structure,
                                        community_target),
                              node_target)
                  community_target_copy == deref(rm.ocs, rm.ref)
              IN  [ncs |-> ncs1,
                   stop |-> (stop \/ leq_tau(community_similarity(
                                         ncs1[i], community_target_copy), tau)),
                   error |-> None] : ncs \in compute_community(g)}

\* act(action).
act(action) ==
    LET act_ == apply_action(G, possible_actions, node_target, action)
        outs == IF act_.budget_consumed = 0 - 1
                THEN act_recompute(act_.graph, stop_episode)
                ELSE {[ncs |-> new_community_structure, stop |-> stop_episode,
                       error |-> None]}
    IN  \E o \in outs :
          /\ heap' = [heap EXCEPT ![graph] = act_.graph]
          /\ possible_actions' = act_.possible_actions
          /\ new_community_structure' = o.ncs
          /\ consumed' = IF act_.budget_consumed = 0 THEN consumed
                         ELSE consumed \cup {<<act_.entry, node_target,
                                               community_target>>}
          /\ IF o.error # None
             THEN /\ ret' = RetOn("act", action, act_.budget_consumed, FALSE, o.error)
                  /\ UNCHANGED <<used_edge_budget, stop_episode>>
             ELSE /\ used_edge_budget' = used_edge_budget + act_.budget_consumed
                  /\ stop_episode' =
                        (\/ o.stop
                         \/ edge_budget
                            - (used_edge_budget + act_.budget_consumed) < 1)
                  /\ ret' = RetOn("act", action, act_.budget_consumed, FALSE, None)
          /\ UNCHANGED <<graph, original_graph, old_graph, config_vars,
                         original_community_structure, old_community_structure,
                         target_vars, edge_budget, max_steps, rewards, old_rewards,
                         old_penalty_value>>

\* set_rewiring_budget() under the beta b.
set_rewiring_budget(b) ==
    /\ edge_budget' = get_edge_budget(env_name, G, b)
    /\ used_edge_budget' = 0
    /\ max_steps' = get_edge_budget(env_name, G, b) * MAX_STEPS_MUL
    /\ stop_episode' = FALSE
    /\ rewards' = 0
    /\ old_rewards' = 0
    /\ possible_actions' = get_possible_actions(G, node_target, CT)

\* NodeHiding.set_parameters(beta, tau): reconfigures the environment and
\* raises when the budget is below 1.
set_parameters(b, t) ==
    /\ beta' = b
    /\ tau' = t
    /\ set_rewiring_budget(b)
    /\ ret' = Ret("set_parameters", 0, FALSE,
                  IF get_edge_budget(env_name, G, b) < 1 THEN "ValueError" ELSE None)
    /\ consumed' = {}
    /\ UNCHANGED <<graph_vars, env_name, lambda_metric, alpha_metric,
                   community_change_method, preferred_community_size,
                   community_vars, target_vars, old_penalty_value>>

\* The agent's grid search sets the two weights of the reward.
set_metrics(l, a) ==
    /\ lambda_metric' = l
    /\ alpha_metric' = a
    /\ ret' = Ret("set_metrics", 0, FALSE, None)
    /\ UNCHANGED <<graph_vars, env_name, beta, tau, community_change_method,
                   preferred_community_size, community_vars, target_vars,
                   budget_vars, episode_vars, possible_actions, consumed>>

\* change_target_node(node_target) on the target community comm, when it
\* returns: the new target node.
change_target_node_to(comm, node) ==
    IF node = NoNumber THEN choose_target_node(comm, node_target) ELSE {node}

\* change_target_node() starting the budget count again.
change_target_node_zeroing(node) ==
    \E u \in change_target_node_to(CT, node) :
      /\ node_target' = u
      /\ used_edge_budget' = 0
      /\ ret' = RetOn("change_target_node", node, 0, FALSE, None)
      /\ UNCHANGED <<graph_vars, config_vars, community_vars, community_target,
                     edge_budget, max_steps, episode_vars, possible_actions,
                     consumed>>

\* change_target_node(node_target).
change_target_node(node) ==
    \E u \in change_target_node_to(CT, node) :
      /\ node_target' = u
      /\ ret' = RetOn("change_target_node", node, 0, FALSE, None)
      /\ UNCHANGED <<graph_vars, config_vars, community_vars, community_target,
                     budget_vars, episode_vars, possible_actions, consumed>>

\* change_target_community(community, node_target).
change_target_community(community, node) ==
    \E ct \in IF community = NoList
              THEN {OrigRef(i) : i \in select_community(community_change_method,
                        original_community_structure, preferred_community_size, CT)}
              ELSE {OwnRef(community)} :
      \E u \in change_target_node_to(deref(original_community_structure, ct), node) :
        /\ community_target' = ct
        /\ node_target' = u
        /\ ret' = Ret("change_target_community", 0, FALSE, None)
        /\ UNCHANGED <<graph_vars, config_vars, community_vars, budget_vars,
                       episode_vars, possible_actions, consumed>>

\* One more call, run from its first line to its return, while the bound on
\* their number allows it.
call ==
    /\ pc = "idle"
    /\ calls < MaxCalls
    /\ calls' = calls + 1
    /\ UNCHANGED <<loop_vars, hiding_vars>>

Next ==
    \/ \E graph_reset \in BOOLEAN : call /\ reset(graph_reset)
    \/ \E action \in Nodes : call /\ step(action)
    \/ \E action \in Nodes : call /\ act(action)
    \/ \E p \in Parameters : call /\ set_parameters(p[1], p[2])
    \/ \E l \in Lambdas, a \in Alphas : call /\ set_metrics(l, a)
    \/ \E node \in ExplicitNodes \cup {NoNumber} : call /\ change_target_node(node)
    \/ \E community \in ExplicitCommunities \cup {NoList},
          node \in ExplicitNodes \cup {NoNumber} :
          call /\ change_target_community(community, node)

Spec == Init /\ [][Next]_vars

\* a graph without the last node ------------------------------------------------

\* The loaded graph when the file names the nodes 0 .. NumNodes - 2 only: the
\* last of the nodes callers pass is then no node of the graph.
FrameGraphs ==
    {[nodes |-> g.nodes \ {NumNodes - 1},
      adj   |-> [e \in {f \in DOMAIN g.adj : NumNodes - 1 \notin f} |-> g.adj[e]]] :
        g \in InitGraphs}

\* The structures the detector finds on such a graph.
FrameStructures ==
    UNION {{cs \in compute_community(g) :
               Len(cs) = 2 /\ Len(cs[1]) <= Len(cs[2]) /\ Len(cs[2]) > 1} :
           g \in FrameGraphs}

InitFrame == InitFrom(FrameGraphs, FrameStructures)

SpecFrame == InitFrame /\ [][Next]_vars

\* the evaluation harness ------------------------------------------------------

\* NodeHiding.get_new_community(new_community_structure) for the harness's
\* target node and target community (a list): the first community with the
\* node; NoList when it raises ValueError.
get_new_community(ncs, node, comm) ==
    IF ncs = NoList THEN comm
    ELSE IF \E i \in DOMAIN ncs : in_list(node, ncs[i])
    THEN ncs[CHOOSE i \in DOMAIN ncs :
                /\ in_list(node, ncs[i])
                /\ \A j \in 1 .. (i - 1) : ~in_list(node, ncs[j])]
    ELSE NoList

\* check_goal comparing the two communities with the target node left in.
check_goal_whole(new_community, node, comm, t) ==
    IF Len(new_community) = 1 THEN 1
    ELSE IF ~in_list(node, new_community) \/ ~in_list(node, comm) THEN NoNumber
    ELSE IF leq_tau(community_similarity(new_community, comm), t) THEN 1
    ELSE 0

\* NodeHiding.check_goal(new_community) for the harness's target node, target
\* community (a list) and tau: 1 or 0; NoNumber when list.remove raises.
check_goal(new_community, node, comm, t) ==
    IF Len(new_community) = 1 THEN 1
    ELSE IF ~in_list(node, new_community) \/ ~in_list(node, comm) THEN NoNumber
    ELSE LET new_community_copy == list_remove(new_community, node)
             old_community_copy == list_remove(comm, node)
             similarity == community_similarity(new_community_copy,
                                                old_community_copy)
         IN  IF leq_tau(similarity, t) THEN 1 ELSE 0

\* NodeHiding.reset_experiment(target_community), when it returns.
reset_experiment(target_community) ==
    /\ pc = "idle"
    /\ calls < MaxCalls
    /\ calls' = calls + 1
    /\ IF target_community
       THEN /\ change_target_community(NoList, NoNumber)
            /\ hiding_community_target' =
                   OwnRef(deref(original_community_structure', community_target'))
       ELSE /\ change_target_node(NoNumber)
            /\ UNCHANGED hiding_community_target
    /\ hiding_node_target' = node_target'
    /\ UNCHANGED loop_vars

\* What run_experiment does with the environment: it configures it, chooses
\* the targets, and has the agent reset it and step through an episode.
NextHiding ==
    \/ \E target_community \in BOOLEAN : reset_experiment(target_community)
    \/ \E p \in Parameters : call /\ set_parameters(p[1], p[2])
    \/ \E l \in Lambdas, a \in Alphas : call /\ set_metrics(l, a)
    \/ \E graph_reset \in BOOLEAN : call /\ reset(graph_reset)
    \/ \E action \in Nodes : call /\ step(action)

SpecHiding == Init /\ [][NextHiding]_vars

\* the loop of change_target_node ------------------------------------------------------

\* change_target_node() entered with no node: old_node = self.node_target.
change_target_node_enter ==
    /\ pc = "idle"
    /\ calls < MaxCalls
    /\ calls' = calls + 1
    /\ pc' = "loop"
    /\ old_node' = node_target
    /\ UNCHANGED <<graph_vars, config_vars, community_vars, target_vars,
                   budget_vars, episode_vars, possible_actions, ret, consumed,
                   old_community, hiding_vars>>

\* The sampling that always draws the first node of the community.
change_target_node_sample_first ==
    /\ pc = "loop"
    /\ node_target = old_node
    /\ node_target' = CT[1]
    /\ UNCHANGED <<graph_vars, config_vars, community_vars, community_target,
                   budget_vars, episode_vars, possible_actions, ret, calls,
                   consumed, loop_vars, hiding_vars>>

\* One turn of the loop: self.node_target = random.choice(self.community_target).
change_target_node_sample ==
    /\ pc = "loop"
    /\ node_target = old_node
    /\ \E v \in list_set(CT) : node_target' = v
    /\ UNCHANGED <<graph_vars, config_vars, community_vars, community_target,
                   budget_vars, episode_vars, possible_actions, ret, calls,
                   consumed, loop_vars, hiding_vars>>

\* The loop left: change_target_node() returns.
change_target_node_leave ==
    /\ pc = "loop"
    /\ node_target # old_node
    /\ pc' = "idle"
    /\ ret' = Ret("change_target_node", 0, FALSE, None)
    /\ UNCHANGED <<graph_vars, config_vars, community_vars, target_vars,
                   budget_vars, episode_vars, possible_actions, calls, consumed,
                   old_node, old_community, hiding_vars>>

NextSampling ==
    \/ change_target_node_enter
    \/ change_target_node_sample
    \/ change_target_node_leave
    \/ \E node \in ExplicitNodes : call /\ change_target_node(node)
    \/ \E community \in ExplicitCommunities, node \in ExplicitNodes :
          call /\ change_target_community(community, node)

\* random.choice draws every node of the community again and again, so a turn
\* of the loop that draws another node than old_node cannot be possible for
\* ever without being taken; a loop whose test fails is left.
SpecSampling ==
    /\ Init
    /\ [][NextSampling]_vars
    /\ SF_vars(change_target_node_sample /\ node_target' # old_node)
    /\ WF_vars(change_target_node_leave)

\* target selection on partitions of other shapes ------------------------------------

\* The sizes of the communities the detector returns, in its order.
TargetSizes ==
    {<<1>>, <<2>>, <<1, 1>>, <<3, 1>>, <<1, 3>>, <<2, 2>>, <<1, 2, 3>>,
     <<5, 4, 3, 2, 1, 1, 1, 1, 1, 1>>, <<2, 2, 1, 1, 1, 1, 1, 1, 1, 1>>}

RECURSIVE sum_sizes(_, _)
sum_sizes(sizes, n) == IF n = 0 THEN 0 ELSE sizes[n] + sum_sizes(sizes, n - 1)

\* The partition of the nodes 0 .. n-1 into consecutive communities of
\* these sizes.
partition_of(sizes) ==
    [i \in DOMAIN sizes |->
        [k \in 1 .. sizes[i] |-> sum_sizes(sizes, i - 1) + k - 1]]

\* sorted(communities, key=len): the lengths in ascending order.
RECURSIVE sorted_lens(_)
sorted_lens(lens) ==
    IF lens = <<>> THEN <<>>
    ELSE LET i == CHOOSE j \in DOMAIN lens :
                      \A k \in DOMAIN lens :
                          lens[j] < lens[k] \/ (lens[j] = lens[k] /\ j <= k)
         IN  <<lens[i]>> \o sorted_lens([k \in 1 .. (Len(lens) - 1) |->
                                            IF k < i THEN lens[k] ELSE lens[k + 1]])

\* The loop of set_communities popping from the list it enumerates: the
\* lengths left after the visit of position i and of those that follow.
RECURSIVE pop_loop(_, _)
pop_loop(lens, i) ==
    IF i > Len(lens) THEN lens
    ELSE IF lens[i] <= 1
    THEN pop_loop([k \in 1 .. (Len(lens) - 1) |->
                      IF k < i THEN lens[k] ELSE lens[k + 1]], i + 1)
    ELSE pop_loop(lens, i + 1)

\* set_communities() passes its assertion on the structure cs.
set_communities(cs) ==
    Len(pop_loop(sorted_lens([i \in DOMAIN cs |-> Len(cs[i])]), 1)) > 0

\* __init__ on such a partition, the graph being the path over its nodes.
\* Under COMMUNITY_CHANGE_METHOD == 1 the constructor raises
\* (random_community copies the community_target that is still None).
InitTarget ==
    \E sizes \in TargetSizes, name \in EnvNames, method \in {2, 3} :
      LET cs == partition_of(sizes)
          n  == sum_sizes(sizes, Len(sizes))
          es == {Edge(v, v + 1) : v \in 0 .. (n - 2)}
          g0 == [nodes |-> 0 .. (n - 1), adj |-> [e \in es |-> 1]]
      IN
      /\ set_communities(cs)
      /\ \E i \in select_community(method, cs, One \div 2, NoList) :
          \E u \in choose_target_node(cs[i], NoNumber) :
          /\ heap = [orig |-> g0, work |-> g0, old |-> NoGraph]
          /\ graph = "work"
          /\ original_graph = "orig"
          /\ old_graph = None
          /\ env_name = name
          /\ beta = 3
          /\ tau = One \div 2
          /\ lambda_metric = NoNumber
          /\ alpha_metric = NoNumber
          /\ community_change_method = method
          /\ preferred_community_size = One \div 2
          /\ original_community_structure = cs
          /\ old_community_structure = cs
          /\ new_community_structure = NoList
          /\ community_target = OrigRef(i)
          /\ node_target = u
          /\ edge_budget = get_edge_budget(name, g0, 3)
          /\ used_edge_budget = 0
          /\ max_steps = get_edge_budget(name, g0, 3) * MAX_STEPS_MUL
          /\ stop_episode = FALSE
          /\ rewards = 0
          /\ old_rewards = 0
          /\ old_penalty_value = 0
          /\ possible_actions = get_possible_actions(g0, u, cs[i])
          /\ ret = Ret("init", 0, FALSE, None)
          /\ calls = 0
          /\ consumed = {}
          /\ pc = "idle"
          /\ old_node = NoNumber
          /\ old_community = NoList
          /\ hiding_node_target = node_target
          /\ hiding_community_target = community_target

\* What the three selection methods leave alone.
selection_frame ==
    UNCHANGED <<graph_vars, config_vars, community_vars, node_target,
                budget_vars, episode_vars, possible_actions, consumed,
                hiding_vars>>

\* self.random_community(), when its loop ends.
random_community_call ==
    \E i \in random_community(original_community_structure, CT) :
      /\ community_target' = OrigRef(i)
      /\ ret' = Ret("random_community", 0, FALSE, None)
      /\ selection_frame

\* self.fixed_community().
fixed_community_call ==
    \E i \in fixed_community(original_community_structure,
                             preferred_community_size) :
      /\ community_target' = OrigRef(i)
      /\ ret' = Ret("fixed_community", 0, FALSE, None)
      /\ selection_frame

\* self.distribution_community(min_len): random.choice raises IndexError on
\* an empty list, before community_target is assigned.
distribution_community_call(min_len) ==
    LET filtered == distribution_community(original_community_structure, min_len)
    IN  /\ IF filtered = {}
           THEN /\ ret' = RetOn("distribution_community", min_len, 0, FALSE,
                                "IndexError")
                /\ UNCHANGED community_target
           ELSE \E i \in filtered :
                  /\ community_target' = OrigRef(i)
                  /\ ret' = RetOn("distribution_community", min_len, 0, FALSE, None)
        /\ selection_frame

\* The values of min_len callers pass (10 is the default).
MinLens == {1, 10}

NextTarget ==
    \/ call /\ random_community_call
    \/ call /\ fixed_community_call
    \/ \E min_len \in MinLens : call /\ distribution_community_call(min_len)

SpecTarget == InitTarget /\ [][NextTarget]_vars

\* the loop of random_community ---------------------------------------------------

\* random_community() entered: old_community = self.community_target.copy().
random_community_enter ==
    /\ pc = "idle"
    /\ calls < MaxCalls
    /\ calls' = calls + 1
    /\ pc' = "select"
    /\ old_community' = CT
    /\ UNCHANGED <<graph_vars, config_vars, community_vars, target_vars,
                   budget_vars, episode_vars, possible_actions, ret, consumed,
                   old_node, hiding_vars>>

\* One turn of the loop: a community is drawn from the original structure,
\* and the loop ends if it has more than one node and differs from
\* old_community, or if the structure has fewer than two communities.
random_community_sample ==
    /\ pc = "select"
    /\ \E i \in DOMAIN original_community_structure :
          /\ community_target' = OrigRef(i)
          /\ pc' = IF \/ /\ Len(original_community_structure[i]) > 1
                         /\ original_community_structure[i] # old_community
                      \/ Len(original_community_structure) < 2
                   THEN "selected" ELSE "select"
    /\ UNCHANGED <<graph_vars, config_vars, community_vars, node_target,
                   budget_vars, episode_vars, possible_actions, ret, calls,
                   consumed, old_node, old_community, hiding_vars>>

\* random_community() has returned and change_target_node() is entered, as
\* in change_target_community().
random_community_leave ==
    /\ pc = "selected"
    /\ pc' = "loop"
    /\ old_node' = node_target
    /\ ret' = Ret("random_community", 0, FALSE, None)
    /\ UNCHANGED <<graph_vars, config_vars, community_vars, target_vars,
                   budget_vars, episode_vars, possible_actions, calls, consumed,
                   old_community, hiding_vars>>

NextSelection ==
    \/ random_community_enter
    \/ random_community_sample
    \/ random_community_leave
    \/ change_target_node_sample
    \/ change_target_node_leave

\* random.choice draws every community, and every node of a community, again
\* and again: the loop of random_community keeps drawing, and a turn that
\* would end a loop cannot be possible for ever without being taken.
SpecSelection ==
    /\ InitTarget
    /\ [][NextSelection]_vars
    /\ WF_vars(random_community_sample)
    /\ SF_vars(random_community_sample /\ pc' = "selected")
    /\ WF_vars(random_community_leave)
    /\ SF_vars(change_target_node_sample /\ node_target' # old_node)
    /\ WF_vars(change_target_node_leave)

\* budgets of graphs of other sizes ---------------------------------------------------

MaxBudgetNodes == 5

\* The position of an edge in the edge list of a file sorted by endpoints.
edge_rank(e) ==
    LET u == CHOOSE x \in e : \A y \in e : x <= y
        v == CHOOSE x \in e : \A y \in e : y <= x
    IN  u * MaxBudgetNodes + v

\* The graphs loaded: n nodes and the edges of the file up to some position,
\* all of weight 1.
BudgetGraphs ==
    {[nodes |-> 0 .. (n - 1),
      adj |-> [e \in {d \in SUBSET (0 .. (n - 1)) :
                         Cardinality(d) = 2 /\ edge_rank(d) < k} |-> 1]] :
        n \in 1 .. MaxBudgetNodes, k \in 0 .. (MaxBudgetNodes * MaxBudgetNodes)}

\* The values of beta and tau the experiments configure.
BudgetParameters == {<<b, One \div 2>> : b \in {1, 9, 10, 45}}

\* __init__ on one of these graphs, the detector finding a single community.
InitBudget ==
    \E g0 \in BudgetGraphs, name \in EnvNames :
      LET cs == <<sorted_list(g0.nodes)>> IN
      \E i \in select_community(3, cs, One \div 2, NoList) :
        \E u \in choose_target_node(cs[i], NoNumber) :
          /\ heap = [orig |-> g0, work |-> g0, old |-> NoGraph]
          /\ graph = "work"
          /\ original_graph = "orig"
          /\ old_graph = None
          /\ env_name = name
          /\ beta = 3
          /\ tau = One \div 2
          /\ lambda_metric = NoNumber
          /\ alpha_metric = NoNumber
          /\ community_change_method = 3
          /\ preferred_community_size = One \div 2
          /\ original_community_structure = cs
          /\ old_community_structure = cs
          /\ new_community_structure = NoList
          /\ community_target = OrigRef(i)
          /\ node_target = u
          /\ edge_budget = get_edge_budget(name, g0, 3)
          /\ used_edge_budget = 0
          /\ max_steps = get_edge_budget(name, g0, 3) * MAX_STEPS_MUL
          /\ stop_episode = FALSE
          /\ rewards = 0
          /\ old_rewards = 0
          /\ old_penalty_value = 0
          /\ possible_actions = get_possible_actions(g0, u, cs[i])
          /\ ret = Ret("init", 0, FALSE, None)
          /\ calls = 0
          /\ consumed = {}
          /\ pc = "idle"
          /\ old_node = NoNumber
          /\ old_community = NoList
          /\ hiding_node_target = node_target
          /\ hiding_community_target = community_target

NextBudget == \E p \in BudgetParameters : call /\ set_parameters(p[1], p[2])

SpecBudget == InitBudget /\ [][NextBudget]_vars

\* properties ------------------------------------------------------------------------

\* The dictionary a call of get_possible_actions() returns in the present state.
Fresh == get_possible_actions(G, node_target, CT)

Reversed(p) == <<p[2], p[1]>>

\* p is an entry of the set S in one of its two orientations.
Unordered(p, S) == p \in S \/ Reversed(p) \in S

\* No pair is in both sets of d, in any orientation, and d holds no pair (u, u).
NoSharedNoSelfPair(d) ==
    /\ \A p \in d.ADD : ~Unordered(p, d.REMOVE)
    /\ \A p \in d.ADD \cup d.REMOVE : p[1] # p[2]

\* C1: in every reachable state, the dictionary get_possible_actions() returns
\* and the stored possible_actions have no pair in both ADD and REMOVE (pairs
\* compared as unordered) and no self-pair.
C1_NoSharedNoSelfPair ==
    NoSharedNoSelfPair(Fresh) /\ NoSharedNoSelfPair(possible_actions)

\* C1 witness: a step has consumed an entry and both stored sets, and both
\* sets of a fresh call, still hold entries.
C1_Witness ==
    /\ ret.op = "step" /\ ret.budget_consumed = 1
    /\ possible_actions.ADD # {} /\ possible_actions.REMOVE # {}
    /\ Fresh.ADD # {} /\ Fresh.REMOVE # {}

\* The sets the specification describes for the target node u, the target
\* community and the working graph.
ExpectedActions ==
    LET u    == node_target
        inC(n) == n \in list_set(CT)
    IN  [ADD    |-> {<<u, v>> : v \in {w \in Nodes \ {u} :
                        /\ inC(u) # inC(w)
                        /\ Edge(u, w) \notin DOMAIN G.adj}},
         REMOVE |-> {<<u, v>> : v \in {w \in Nodes \ {u} :
                        /\ inC(u) /\ inC(w)
                        /\ Edge(u, w) \in DOMAIN G.adj}}]

\* C2: in every reachable state get_possible_actions() returns exactly: REMOVE
\* = the pairs (u, v), v # u, with u and v in the target community and an edge
\* u-v in the working graph; ADD = the pairs (u, v), v # u, with exactly one of
\* u, v in the target community and no edge u-v; nothing else, each pair once.
\* (The dictionary is computed from the state: the call assigns no field.)
C2_ExactSets == Fresh = ExpectedActions

\* C2 witness: after a consuming step or act the working graph differs from
\* the original one and a fresh call returns entries in both sets.
C2_Witness ==
    /\ ret.op \in {"step", "act"} /\ ret.budget_consumed = 1
    /\ G # OG
    /\ Fresh.ADD # {} /\ Fresh.REMOVE # {}

\* C3: consumption is one-shot. An entry consumed by apply_action (through
\* step or act) is, until possible_actions is computed again (reset,
\* set_rewiring_budget), in neither stored set in either orientation; and
\* while the target is the one it was consumed under, a fresh
\* get_possible_actions() on the changed graph holds it neither in ADD nor in
\* REMOVE.
C3_OneShot ==
    \A c \in consumed :
        /\ ~Unordered(c[1], possible_actions.ADD)
        /\ ~Unordered(c[1], possible_actions.REMOVE)
        /\ (c[2] = node_target /\ c[3] = community_target) =>
              /\ ~Unordered(c[1], Fresh.ADD)
              /\ ~Unordered(c[1], Fresh.REMOVE)

\* The call that has just returned is a step or an act.
Applied == ret'.op \in {"step", "act"}

\* The entry apply_action(v) matches in the set S: the pair (target node, v)
\* when S holds it, else its reverse.
Matched(v, S) == IF <<node_target, v>> \in S THEN <<node_target, v>>
                 ELSE <<v, node_target>>

\* C4: when apply_action(v), called by step or act, finds the pair (target
\* node, v) or its reverse in ADD, it adds exactly the edge {target node, v},
\* absent until then, with weight 1, removes exactly that entry from ADD,
\* leaves REMOVE and every other edge as they were and returns 1; when it finds
\* the pair in REMOVE it removes exactly that edge and exactly that entry of
\* REMOVE, leaves ADD and every other edge as they were and returns 1.
C4_AppliedExactly ==
    [][Applied =>
        LET v == ret'.action
            e == Edge(node_target, v)
        IN  /\ Unordered(<<node_target, v>>, possible_actions.ADD) =>
                 /\ e \notin DOMAIN G.adj
                 /\ G'.nodes = G.nodes
                 /\ DOMAIN G'.adj = DOMAIN G.adj \cup {e}
                 /\ G'.adj[e] = 1
                 /\ \A f \in DOMAIN G.adj : G'.adj[f] = G.adj[f]
                 /\ possible_actions'.ADD =
                        possible_actions.ADD \ {Matched(v, possible_actions.ADD)}
                 /\ possible_actions'.REMOVE = possible_actions.REMOVE
                 /\ ret'.budget_consumed = 1
            /\ (/\ ~Unordered(<<node_target, v>>, possible_actions.ADD)
                /\ Unordered(<<node_target, v>>, possible_actions.REMOVE)) =>
                 /\ e \in DOMAIN G.adj
                 /\ G'.nodes = G.nodes
                 /\ DOMAIN G'.adj = DOMAIN G.adj \ {e}
                 /\ \A f \in DOMAIN G'.adj : G'.adj[f] = G.adj[f]
                 /\ possible_actions'.REMOVE =
                        possible_actions.REMOVE
                            \ {Matched(v, possible_actions.REMOVE)}
                 /\ possible_actions'.ADD = possible_actions.ADD
                 /\ ret'.budget_consumed = 1]_vars

\* C4 witness: a call has just consumed an entry, and by now the working graph
\* has an edge of weight 1 the original graph lacks and lacks an edge the
\* original graph has: an entry of ADD and one of REMOVE have been applied.
C4_Witness ==
    /\ ret.op \in {"step", "act"} /\ ret.budget_consumed = 1
    /\ \E e \in DOMAIN G.adj \ DOMAIN OG.adj : G.adj[e] = 1
    /\ DOMAIN OG.adj \ DOMAIN G.adj # {}

\* C5: apply_action(v), called by step or act, with the pair (target node, v)
\* in neither set in either orientation returns 0 and leaves the working graph
\* and both sets as they were, so that any number of such calls in a row
\* return 0 and remove no entry.
C5_NoMatchNoChange ==
    [][Applied =>
        LET pair == <<node_target, ret'.action>>
        IN  (/\ ~Unordered(pair, possible_actions.ADD)
             /\ ~Unordered(pair, possible_actions.REMOVE)) =>
                /\ ret'.budget_consumed = 0
                /\ G' = G
                /\ possible_actions' = possible_actions]_vars

\* C5 witness: a call has just returned 0 for a pair consumed earlier under the
\* present target, with entries left in the stored sets.
C5_Witness ==
    /\ ret.op \in {"step", "act"} /\ ret.budget_consumed = 0
    /\ \E c \in consumed :
          /\ c[1] \in {<<node_target, ret.action>>, <<ret.action, node_target>>}
          /\ c[2] = node_target
    /\ possible_actions.ADD \cup possible_actions.REMOVE # {}

\* C6 as stated: every step and act leaves used_edge_budget equal or raises it
\* by exactly 1, and once it is positive only reset sets it back to 0.
C6_OnlyResetZeroes ==
    [][/\ Applied => used_edge_budget' \in {used_edge_budget, used_edge_budget + 1}
       /\ (used_edge_budget > 0 /\ used_edge_budget' = 0) => ret'.op = "reset"]_vars

\* C6 amended: every step and act leaves used_edge_budget equal or raises it by
\* exactly 1 (by the value apply_action returned, unless the call raised);
\* reset and set_rewiring_budget (here through set_parameters) set it to 0; no
\* other operation changes it.
C6_BudgetCount ==
    [][/\ Applied =>
            /\ used_edge_budget' \in {used_edge_budget, used_edge_budget + 1}
            /\ ret'.error = None =>
                  used_edge_budget' = used_edge_budget + ret'.budget_consumed
       /\ ret'.op \in {"reset", "set_parameters"} => used_edge_budget' = 0
       /\ ~Applied /\ ret'.op \notin {"reset", "set_parameters"} =>
            used_edge_budget' = used_edge_budget]_vars

\* C6 witness: two calls have consumed budget since it was last set to 0, the
\* last call being one of them.
C6_Witness ==
    /\ ret.op \in {"step", "act"} /\ ret.budget_consumed = 1
    /\ used_edge_budget = 2

\* C7 as stated: when step returns a reward of -1, the working graph has the
\* edges it had before the call (old_graph holds the copy step took of it).
C7_MinusOneOnlyNoOp ==
    (ret.op = "step" /\ ret.error = None /\ rewards = 0 - One) =>
        DOMAIN G.adj = DOMAIN heap[old_graph].adj

\* C8: when step returns done = true, the community of the recomputed structure
\* that holds the target node has size 1, or its similarity to the target
\* community, the target node removed from both, is <= tau; and the call has
\* consumed budget.
C8_DoneMeansHidden ==
    (ret.op = "step" /\ ret.done) =>
        LET nct == community_of(new_community_structure, node_target)
            sim == community_similarity(list_remove(nct, node_target),
                                        list_remove(CT, node_target))
        IN  /\ ret.budget_consumed = 1
            /\ nct # NoList
            /\ \/ Len(nct) = 1
               \/ sim.num * One <= tau * sim.den

\* C8 witness: step has returned done = true for a target node that shares its
\* new community with other nodes.
C8_Witness ==
    /\ ret.op = "step" /\ ret.done
    /\ Len(community_of(new_community_structure, node_target)) > 1

\* C9: reset(graph_reset=True) leaves a working graph with the node set and
\* the edge set of the original graph, whatever steps and acts came before.
C9_ResetRestoresGraph ==
    (ret.op = "reset" /\ ret.action = 1) =>
        /\ G.nodes = OG.nodes
        /\ DOMAIN G.adj = DOMAIN OG.adj

\* C9 witness: reset(graph_reset=True) has just returned, after a step that
\* changed the working graph and recomputed the community structure.
C9_Witness ==
    /\ ret.op = "reset" /\ ret.action = 1
    /\ new_community_structure # NoList

\* C10: no operation changes the original graph or the communities of the
\* original community structure, be it through original_graph, through the
\* list community_target holds or through old_community_structure.
C10_OriginalsKept ==
    [][/\ heap'[original_graph'] = heap[original_graph]
       /\ original_community_structure' = original_community_structure]_vars

\* C10 witness: step has computed a reward for a target community that is a
\* list of the original structure, from which get_reward removed the target
\* node in a copy, on a working graph that differs from the original one.
C10_Witness ==
    /\ ret.op = "step" /\ ret.error = None /\ ret.budget_consumed = 1
    /\ community_target.kind = "orig"
    /\ Len(community_of(new_community_structure, node_target)) > 1
    /\ G # OG

\* C11 as stated: in every state reachable after construction the target node
\* is a member of the target community.
C11_TargetInCommunity == in_list(node_target, CT)

\* C12 as stated: when change_target_community or change_target_node has
\* returned, the stored possible_actions equal get_possible_actions() for the
\* new target node and target community on the working graph.
C12_RecomputedOnTargetChange ==
    ret.op \in {"change_target_node", "change_target_community"} =>
        possible_actions = Fresh

\* C13 as stated, for an environment configured with a budget of at least 1:
\* whatever steps and acts are issued, used_edge_budget (the number of edge
\* mutations applied since it was last set to 0) never exceeds edge_budget.
C13_BudgetNeverExceeded == edge_budget >= 1 => used_edge_budget <= edge_budget

\* C14 as stated: the budget is the floor of edges / nodes * beta, and of
\* (edges / nodes + 1) * beta for the graphs named "pow" and "kar", and
\* max_steps is the budget times MAX_STEPS_MUL.
C14_BudgetIsFloor ==
    LET E == number_of_edges(G)
        N == number_of_nodes(G)
        x == IF env_name \in {"pow", "kar"} THEN (E + N) * beta ELSE E * beta
    IN  /\ edge_budget * N <= x
        /\ x < (edge_budget + 1) * N
        /\ max_steps = edge_budget * MAX_STEPS_MUL

\* C15 as stated: the budget set_parameters stores is the one computed from
\* the original graph, whatever mutations the working graph has received.
C15_BudgetFromOriginal ==
    ret.op = "set_parameters" => edge_budget = get_edge_budget(env_name, OG, beta)

\* C16 as stated: a step whose destination matches no possible action returns
\* the reward -1 and done = false, and leaves the working graph, the stop
\* flag (which is the one returned), used_edge_budget, both sets of possible
\* actions, the community structures of this step and of the previous one
\* and the stored previous penalty as they were.
C16_NoMatchFrame ==
    [][calls' # calls /\ ret'.op = "step" /\ ret'.budget_consumed = 0 =>
          /\ rewards' = 0 - One
          /\ ret'.done = FALSE
          /\ ret'.error = None
          /\ G' = G
          /\ stop_episode' = stop_episode
          /\ used_edge_budget' = used_edge_budget
          /\ possible_actions' = possible_actions
          /\ new_community_structure' = new_community_structure
          /\ old_community_structure' = old_community_structure
          /\ old_penalty_value' = old_penalty_value]_vars

\* A no-match step has returned on a working graph that differs from the
\* original, in an episode with used budget and a community structure computed.
C16_Witness ==
    /\ ret.op = "step"
    /\ ret.budget_consumed = 0
    /\ G # OG
    /\ used_edge_budget > 0
    /\ new_community_structure # NoList

\* C17 as stated: after every step that consumed budget and returned,
\* used_edge_budget has grown by exactly 1, and the stop flag returned is
\* true exactly when it was true before the call, or done is true, or
\* edge_budget - used_edge_budget < 1 after the increment; done = true comes
\* with stop = true.
C17_BudgetAndStop ==
    [][calls' # calls /\ ret'.op = "step" /\ ret'.budget_consumed = 1
          /\ ret'.error = None =>
          /\ used_edge_budget' = used_edge_budget + 1
          /\ stop_episode' <=> (\/ stop_episode
                                \/ ret'.done
                                \/ edge_budget' - used_edge_budget' < 1)
          /\ ret'.done => stop_episode']_vars

\* The first consuming step since the budget was set has spent the whole
\* budget: it returned done = false and the stop flag raised.
C17_Witness ==
    /\ ret.op = "step"
    /\ ret.budget_consumed = 1
    /\ ret.error = None
    /\ ~ret.done
    /\ used_edge_budget = 1
    /\ edge_budget = 1
    /\ stop_episode

\* C18 as stated: after reset, with graph_reset true or false,
\* used_edge_budget = 0, the stop flag is false, rewards = 0, the stored
\* previous penalty is 0, the previous-step community structure is the
\* original one and possible_actions are those of the current target on the
\* resulting working graph; with graph_reset false the working graph keeps
\* its edge set; the target community, the target node, edge_budget and
\* max_steps are what they were.
C18_ResetPostcondition ==
    [][calls' # calls /\ ret'.op = "reset" =>
          /\ used_edge_budget' = 0
          /\ stop_episode' = FALSE
          /\ rewards' = 0
          /\ old_penalty_value' = 0
          /\ old_community_structure' = original_community_structure'
          /\ possible_actions' = get_possible_actions(G', node_target', CT')
          /\ ret'.action = 0 => DOMAIN G'.adj = DOMAIN G.adj
          /\ community_target' = community_target
          /\ CT' = CT
          /\ node_target' = node_target
          /\ edge_budget' = edge_budget
          /\ max_steps' = max_steps]_vars

\* reset(graph_reset=False) has returned on a working graph that differs
\* from the original one.
C18_Witness ==
    /\ ret.op = "reset"
    /\ ret.action = 0
    /\ DOMAIN G.adj # DOMAIN OG.adj
    /\ possible_actions = Fresh

\* C19 as stated, for the steps that reach the reward computation (their
\* destination matched a possible action): a step called while lambda_metric
\* or alpha_metric is unset raises a configuration error, and when it is
\* raised the working graph, both sets of possible actions, used_edge_budget
\* and the community structures are what they were before the call.
C19_FailFast ==
    [][calls' # calls /\ ret'.op = "step" /\ ret'.budget_consumed = 1
          /\ (lambda_metric = NoNumber \/ alpha_metric = NoNumber) =>
          /\ ret'.error = "AssertionError"
          /\ G' = G
          /\ possible_actions' = possible_actions
          /\ used_edge_budget' = used_edge_budget
          /\ original_community_structure' = original_community_structure
          /\ old_community_structure' = old_community_structure
          /\ new_community_structure' = new_community_structure]_vars

\* C20 as stated: set_parameters raises when the budget it has configured is
\* below 1, and no step or act is ever called on an environment whose
\* edge_budget is below 1.
C20_NoEpisodeWithoutBudget ==
    [][calls' # calls =>
          /\ ret'.op = "set_parameters" /\ edge_budget' < 1 =>
                ret'.error = "ValueError"
          /\ ret'.op \in {"step", "act"} => edge_budget >= 1]_vars

\* C21 as stated: after every budget-consuming step the partition computed
\* holds a community with the target node, which is still a node of the
\* working graph, and the assertion on the new target community does not
\* fail: an AssertionError is that of an unset lambda_metric or alpha_metric.
C21_TargetCommunityFound ==
    [][calls' # calls /\ ret'.op = "step" /\ ret'.budget_consumed = 1 =>
          /\ node_target' \in G'.nodes
          /\ \E i \in DOMAIN new_community_structure' :
                in_list(node_target', new_community_structure'[i])
          /\ ret'.error = "AssertionError" =>
                (lambda_metric = NoNumber \/ alpha_metric = NoNumber)]_vars

\* A consuming step has returned a reward with the target node in the second
\* community of the partition computed.
C21_Witness ==
    /\ ret.op = "step"
    /\ ret.budget_consumed = 1
    /\ ret.error = None
    /\ Len(new_community_structure) > 1
    /\ ~in_list(node_target, new_community_structure[1])

C23_ChangeTargetNode ==
    /\ (pc = "loop" /\ Cardinality(list_set(CT)) > 1) ~> (pc = "idle")
    /\ [][pc = "loop" /\ pc' = "idle" =>
             in_list(node_target', CT') /\ node_target' # old_node]_vars
    /\ [][calls' # calls /\ ret'.op = "change_target_node"
             /\ ret'.action # NoNumber => node_target' = ret'.action]_vars

\* change_target_node() has returned a new member of a target community of
\* more than one node after drawing the previous target node at least once.
C23_Witness ==
    /\ pc = "idle"
    /\ ret.op = "change_target_node"
    /\ ret.action = NoNumber
    /\ old_node # NoNumber
    /\ in_list(old_node, CT)
    /\ node_target # old_node
    /\ Len(CT) > 1

\* C24 as stated: when random_community returns, the target community is a
\* community of the original partition with more than one node, and it
\* differs from the one held before the call unless the partition has fewer
\* than two communities.
C24_RandomCommunity ==
    [][calls' # calls /\ ret'.op = "random_community" =>
          /\ \E i \in DOMAIN original_community_structure :
                community_target' = OrigRef(i)
          /\ Len(CT') > 1
          /\ Len(original_community_structure) >= 2 => CT' # CT]_vars

\* random_community has returned the only community of a partition, the one
\* already held.
C24_Witness ==
    /\ ret.op = "random_community"
    /\ Len(original_community_structure) = 1
    /\ Len(CT) > 1

\* C25 as stated: fixed_community selects a community of the original
\* partition whose size is nearest to ceil(preferred fraction * largest
\* size), and among those at the least distance the first one in the order
\* sorted by size.
C25_FixedCommunity ==
    [][calls' # calls /\ ret'.op = "fixed_community" =>
          LET cs        == original_community_structure
              largest   == CHOOSE m \in {Len(cs[k]) : k \in DOMAIN cs} :
                               \A k \in DOMAIN cs : Len(cs[k]) <= m
              preferred == (largest * preferred_community_size + One - 1) \div One
              dist(k)   == IF Len(cs[k]) < preferred THEN preferred - Len(cs[k])
                           ELSE Len(cs[k]) - preferred
          IN  \E i \in DOMAIN cs :
                /\ community_target' = OrigRef(i)
                /\ \A j \in DOMAIN cs : dist(i) <= dist(j)
                /\ \A j \in DOMAIN cs :
                      dist(j) = dist(i) =>
                          \/ Len(cs[i]) < Len(cs[j])
                          \/ (Len(cs[i]) = Len(cs[j]) /\ i <= j)]_vars

C27_PenaltyDelta ==
    [][calls' # calls =>
          /\ ret'.op = "step" /\ ret'.budget_consumed = 1 /\ ret'.error = None =>
                \E score \in normalized_mutual_information(
                                 new_community_structure', old_community_structure),
                   distance \in graph_similarity(G', heap'[old_graph']) :
                   old_penalty_value' =
                       (alpha_metric * (One - score)) \div One
                       + ((One - alpha_metric) * distance) \div One
                       - old_penalty_value
          /\ ret'.op = "step" /\ ret'.budget_consumed = 0 =>
                old_penalty_value' = old_penalty_value
          /\ ret'.op = "reset" => old_penalty_value' = 0
          /\ ret'.op \notin {"step", "reset"} =>
                old_penalty_value' = old_penalty_value]_vars

\* A consuming step has stored a negative penalty: its weighted distance was
\* smaller than the penalty of the consuming step before it.
C27_Witness ==
    /\ ret.op = "step"
    /\ ret.budget_consumed = 1
    /\ ret.error = None
    /\ old_penalty_value < 0

\* C28 as stated: a budget-consuming step that returns gives the reward
\* 1 - lambda_metric * penalty and done = true when the new community of the
\* target node holds that node alone or is, the target node removed, similar
\* to the target community by tau or less, and the reward
\* - lambda_metric * penalty and done = false otherwise; penalty is the value
\* get_penalty returned in this step, where it was evaluated once.
C28_RewardAndDone ==
    [][calls' # calls /\ ret'.op = "step" /\ ret'.budget_consumed = 1
          /\ ret'.error = None =>
          LET new_target == new_community_structure'[
                  CHOOSE i \in DOMAIN new_community_structure' :
                      /\ in_list(node_target, new_community_structure'[i])
                      /\ \A j \in 1 .. (i - 1) :
                            ~in_list(node_target, new_community_structure'[j])]
              sim     == community_similarity(list_remove(new_target, node_target),
                                              list_remove(CT, node_target))
              hidden  == Len(new_target) = 1 \/ sim.num * One <= tau * sim.den
              penalty == old_penalty_value'
          IN  /\ ret'.done <=> hidden
              /\ rewards' = (IF hidden THEN One ELSE 0)
                             - (lambda_metric * penalty) \div One
              /\ \E score \in normalized_mutual_information(
                                   new_community_structure', old_community_structure),
                     distance \in graph_similarity(G', heap'[old_graph']) :
                     penalty + old_penalty_value =
                         (alpha_metric * (One - score)) \div One
                         + ((One - alpha_metric) * distance) \div One]_vars

\* A consuming step has returned done = false with a reward that is not 0.
C28_Witness ==
    /\ ret.op = "step"
    /\ ret.budget_consumed = 1
    /\ ret.error = None
    /\ ~ret.done
    /\ rewards # 0

\* C29 as stated: after every call of step, consuming or not, old_graph is
\* the working graph as it was when the call began; and after every
\* budget-consuming step that returns, old_community_structure is the
\* structure the detector computed on the graph that step produced.
C29_StepOrdering ==
    [][calls' # calls /\ ret'.op = "step" =>
          /\ old_graph' # None
          /\ heap'[old_graph'] = G
          /\ ret'.budget_consumed = 1 /\ ret'.error = None =>
                /\ old_community_structure' = new_community_structure'
                /\ old_community_structure' \in compute_community(G')]_vars

\* A consuming step has returned: the working graph has moved on from the
\* snapshot and the detector's structure has become the previous one.
C29_Witness ==
    /\ ret.op = "step"
    /\ ret.budget_consumed = 1
    /\ ret.error = None
    /\ old_graph # None
    /\ heap[old_graph] # G
    /\ old_community_structure = new_community_structure
    /\ old_community_structure # original_community_structure

\* C30 as stated: no call changes the node set of the working graph, and
\* every edge a call of step or act adds to it or removes from it has the
\* target node of that moment as an endpoint.
C30_TargetEndpointOnly ==
    [][calls' # calls =>
          /\ G'.nodes = G.nodes
          /\ ret'.op \in {"step", "act"} =>
                \A u \in G.nodes \cup G'.nodes, v \in G.nodes \cup G'.nodes :
                    has_edge(G', u, v) # has_edge(G, u, v) =>
                        node_target \in Edge(u, v)]_vars

\* The number of node pairs joined in one of the working graph and the
\* original graph and not in the other.
Differing ==
    Cardinality({e \in AllEdges : (e \in DOMAIN G.adj) # (e \in DOMAIN OG.adj)})

\* C31 as stated: reset(graph_reset=True) leaves the working graph and the
\* original graph differing on no pair, with used_edge_budget 0, and every
\* call of step or act that completes without error keeps the number of
\* pairs they differ on equal to used_edge_budget; so that after such a
\* reset and any sequence of such calls the two are equal.
C31_BudgetMatchesGraph ==
    [][calls' # calls =>
          /\ ret'.op = "reset" /\ ret'.action = 1 =>
                Differing' = 0 /\ used_edge_budget' = 0
          /\ (/\ ret'.op \in {"step", "act"}
              /\ ret'.error = None
              /\ Differing = used_edge_budget) =>
                Differing' = used_edge_budget']_vars

\* Two calls have consumed budget since the reset, one adding an edge and
\* one removing one, and the graphs differ on two pairs.
C31_Witness ==
    /\ ret.op \in {"step", "act"}
    /\ ret.error = None
    /\ ret.budget_consumed = 1
    /\ used_edge_budget = 2
    /\ Differing = 2
    /\ DOMAIN G.adj \ DOMAIN OG.adj # {}
    /\ DOMAIN OG.adj \ DOMAIN G.adj # {}

\* C32 as stated: a call of step or act made while stop_episode is true
\* leaves it true, whether it consumes budget or not, and the only calls
\* after which a true stop_episode is false are reset and the
\* set_rewiring_budget of set_parameters.
C32_StopIsSticky ==
    [][calls' # calls /\ stop_episode =>
          /\ ret'.op \in {"step", "act"} => stop_episode'
          /\ ~stop_episode' => ret'.op \in {"reset", "set_parameters"}]_vars

\* A step has returned done = false with budget to spare, and the stop flag
\* set earlier in the episode is still up.
C32_Witness ==
    /\ ret.op = "step"
    /\ ret.budget_consumed = 1
    /\ ret.error = None
    /\ ~ret.done
    /\ edge_budget - used_edge_budget >= 1
    /\ stop_episode

\* The entries left in the two stored sets.
Stored == Cardinality(possible_actions.ADD) + Cardinality(possible_actions.REMOVE)

C34_ActAndStepAgree ==
    [][(/\ calls' # calls
        /\ ret'.op \in {"step", "act"}
        /\ ret'.error = None
        /\ lambda_metric # NoNumber
        /\ alpha_metric # NoNumber) =>
          LET r         == apply_action(G, possible_actions, node_target, ret'.action)
              used      == used_edge_budget + r.budget_consumed
              stop_act  == stop_episode \/ edge_budget - used < 1
          IN  /\ G' = r.graph
              /\ possible_actions' = r.possible_actions
              /\ used_edge_budget' = used
              /\ ret'.op = "act" => stop_episode' = stop_act
              /\ ret'.op = "step" => stop_episode' = (stop_act \/ ret'.done)]_vars

\* C35 as stated: after a budget-consuming step that returns, check_goal
\* applied to what get_new_community finds in the new structure, for the
\* harness's target node and target community and the environment's tau,
\* gives 1 exactly when the step returned done = true, and 0 otherwise; and
\* when reset_experiment returns, the harness's target node is the
\* environment's and its target community holds the nodes of the
\* environment's.
C35_SameCriterion ==
    /\ [][(/\ calls' # calls
            /\ ret'.op = "step"
            /\ ret'.budget_consumed = 1
            /\ ret'.error = None) =>
              LET goal == check_goal(
                              get_new_community(new_community_structure',
                                  hiding_node_target,
                                  deref(original_community_structure,
                                        hiding_community_target)),
                              hiding_node_target,
                              deref(original_community_structure,
                                    hiding_community_target),
                              tau)
              IN  /\ goal \in {0, 1}
                  /\ goal = 1 <=> ret'.done]_vars
    /\ [][(/\ calls' # calls
            /\ ret'.op \in {"change_target_community", "change_target_node"}) =>
              /\ hiding_node_target' = node_target'
              /\ deref(original_community_structure', hiding_community_target')
                    = deref(original_community_structure', community_target')]_vars

\* After a reset_experiment that chose another community, a step has
\* returned done = true on a new community of more than one node.
C35_Witness ==
    /\ ret.op = "step"
    /\ ret.budget_consumed = 1
    /\ ret.error = None
    /\ ret.done
    /\ hiding_community_target.kind = "own"
    /\ hiding_node_target = node_target
    /\ Len(community_of(new_community_structure, node_target)) > 1

\* C36 as stated: on an original structure with a community of more than
\* one node, whatever the target community is when it is called,
\* random_community() followed by change_target_node() returns.
C36_SelectionTerminates ==
    (/\ pc = "select"
     /\ \E i \in DOMAIN original_community_structure :
           Len(original_community_structure[i]) > 1)
        ~> (pc = "idle")

====
